---- MODULE Spec2Model ----
(***************************************************************************)
(* Model of roadrunner_iridium_server: one WebSocket connection served by  *)
(* server.handle.  The asyncio event loop reads messages and spawns one    *)
(* dispatch_message task per message; each task runs handle_message on a   *)
(* ThreadPoolExecutor of MAX_THREADS_PER_SESSION worker threads, every     *)
(* worker owning a thread-local Simulator; the antimony module, which      *)
(* Simulator._convert_antimony_to_sbml drives through module-level calls,  *)
(* is one registry for the whole process.                                  *)
(***************************************************************************)
EXTENDS Integers, Sequences, FiniteSets, TLC

\* ------------------------------------------------------------------ bounds
\* Number of messages the client sends on the connection, per specification.
MaxMsgs == 2
MaxLoadMsgs == 3
MaxLiveMsgs == 2
MaxLifeMsgs == 2
MaxPoolMsgs == 5
MaxNoCodeMsgs == 2

\* --------------------------------------------------------------- constants
MAX_THREADS_PER_SESSION == 4

\* Python's None for a string-valued field, for an absent integer id and for
\* an object reference.
None == "None"
NoId == 0
NoSbml == <<>>
NoEngine == <<>>

\* Antimony sources: two that compile, one the compiler rejects.
GoodCodes == {"codeA", "codeB"}
BadCodes == {"codeX"}
Codes == GoodCodes \cup BadCodes

Types == {"loadModel", "timeCourse", "steadyState"}

\* A raw message, as far as the two decoders look at it: is it well-formed
\* JSON, which integer "id" it holds (None: no such field), its "type" tag
\* and its "internalState" (None: absent or null).  A well-formed message
\* whose type is a known tag holds that variant's payload.
RawMessage(json, id, type, code) ==
    [json |-> json, id |-> id, type |-> type, code |-> code]

\* The client numbers its requests: the n-th message it sends has id n.
ValidMessages(n) ==
    {RawMessage(TRUE, n, ty, c) : ty \in Types, c \in Codes \cup {None}}
\* Well-formed JSON without the required fields, with and without an id,
\* and text that is no JSON at all, its id readable in the text.
InvalidMessages(n) ==
    {RawMessage(TRUE, n, "bogus", None),
     RawMessage(TRUE, NoId, "loadModel", None),
     RawMessage(FALSE, n, "loadModel", None)}

\* ---------------------------------------------------------------- decoding
\* Action.model_validate_json: strict, discriminated by "type".
ActionValid(m) == m.json /\ m.id # NoId /\ m.type \in Types

\* BareAction.model_validate_json: only `id: int` is required.
BareActionValid(m) == m.json /\ m.id # NoId
BareActionId(m) == m.id

\* ------------------------------------------------------- compiler / engine
\* antimony.loadAntimonyString: > 0 when the source parses.
LoadStatus(code) == IF code \in GoodCodes THEN 1 ELSE -1
\* antimony.getSBMLString for a loaded module; RoadRunner(sbml); the four
\* metadata accessors read at load time.
SbmlOf(code) == <<"sbml", code>>
EngineOf(sbml) == <<"rr", sbml[2]>>
MetaOf(rr) == <<"info", rr[2]>>

\* Simulator.__init__: the cached metadata attributes do not exist yet.
Unset == <<>>
\* __init__ giving the cached metadata empty defaults.
NewSimulatorEmptyInfo ==
    [code |-> None, sbml |-> NoSbml, rr |-> NoEngine,
     cached |-> <<"info", None>>]

\* Simulator.__init__: no code, no SBML, no engine; the cached metadata
\* attributes are not assigned at all.
NewSimulator ==
    [code |-> None, sbml |-> NoSbml, rr |-> NoEngine, cached |-> Unset]

VARIABLES
    conn,       \* "open" | "closing" (handle is inside executor shutdown) | "closed"
    msgs,       \* the messages read from the connection, in arrival order
    task,       \* per message: position of its dispatch_message task
    pending,    \* tasks created by create_task that have not started yet
    workQueue,  \* the executor's work queue (message indices)
    nthreads,   \* worker threads started so far
    idleSem,    \* the executor's _idle_semaphore
    thr,        \* per worker thread: the work item it runs and its frame
    local,      \* threading.local(): thread -> the simulator it stored
    sims,       \* the Simulator objects created so far
    antimony,   \* the antimony module's registry (process-wide)
    future,     \* per message: outcome of its executor future
    ready,      \* the event loop's ready queue of completed futures
    outbox,     \* messages sent on the connection, in order
    madeBy,     \* per simulator: the thread whose initializer constructed it
    compiled,   \* per message: did its handling call the compiler
    ranOn,      \* per message: the simulator it was run against, and by whom
    \* A Simulator called directly, one call after another, as the tests do.
    \* The connection-level actions leave these alone: there the engine is
    \* known by the model it was built from, not by its values.
    simulator,  \* that Simulator's fields
    rrValues,   \* the current values of its engine's settable symbols
    call,       \* the last call made on it: arguments, engine values, outcome
    loaded,     \* the code of its last load_code that returned normally
    overridden  \* per name: the value overrides gave it since the last reset

unitVars == <<simulator, rrValues, call, loaded, overridden>>
vars == <<conn, msgs, task, pending, workQueue, nthreads, idleSem, thr, local,
          sims, antimony, future, ready, outbox, madeBy, compiled, ranOn,
          simulator, rrValues, call, loaded, overridden>>

Threads == 1..MAX_THREADS_PER_SESSION
\* A worker's frame: the work item it runs (0: blocked on the work queue) and
\* how far handle_message got: "invalid" (validation raised), "noload"
\* (load_code not called, or returned at once), "loaded" / "loadfailed"
\* (loadAntimonyString returned, with load_status > 0 or not).
IdleThread == [item |-> 0, phase |-> "idle"]
Frame(i, phase) == [item |-> i, phase |-> phase]
\* Where a message was run: the simulator, the calling thread, and the
\* simulator's fields as handle_message found them.
NotRun == [sim |-> 0, thread |-> 0, entry |-> NewSimulator]

NoFuture == [kind |-> "none", id |-> NoId, variant |-> None, of |-> None]
Raised(exc) == [kind |-> "exception", id |-> NoId, variant |-> exc, of |-> None]
\* Result(id=action.id, data=...): the data is of the class the branch built,
\* computed from one engine model.
Result(id, variant, of) ==
    [kind |-> "Result", id |-> id, variant |-> variant, of |-> of]
ErrorResult(id) ==
    [kind |-> "ErrorResult", id |-> id, variant |-> None, of |-> None]

\* The names a request may try to set and the values an engine symbol may
\* take; a variable_values entry gives its name the value OverrideValue, the
\* parameter-scan option gives its name the value ScanValue.
Names == {"A", "k1"}
Values == {1, 2}
OverrideValue == 2
ScanValue == 1
\* roadrunner.model.keys(): the settable symbols of the model built from
\* `code`; "A" is a species, "k1" a rate constant that only the first model
\* has, so that to the second model "k1" is an unknown name.
ModelKeys(code) == IF code = "codeA" THEN {"A", "k1"} ELSE {"A"}
Species == {"A"}
\* The values the engine holds when it was just built from `code`, which are
\* also the values resetAll() returns it to.
InitialValues(code) ==
    [k \in ModelKeys(code) |-> IF code = "codeA" THEN 1 ELSE 2]
NoValues == [k \in {} |-> 0]
NoScan == [varying_parameter |-> None, varying_parameter_value |-> 0]
NoInfo == [of |-> None, values |-> NoValues]
NoCall ==
    [op |-> "none", reset |-> FALSE, vv |-> NoValues, scan |-> NoScan,
     before |-> NoValues, base |-> NoValues, start |-> NoValues,
     prior |-> [k \in Names |-> 0], raised |-> FALSE, ret |-> NoInfo]

Init ==
    /\ conn = "open"
    /\ msgs = <<>>
    /\ task = <<>>
    /\ pending = <<>>
    /\ workQueue = <<>>
    /\ nthreads = 0
    /\ idleSem = 0
    /\ thr = [t \in Threads |-> IdleThread]
    /\ local = [t \in Threads |-> 0]
    /\ sims = <<>>
    /\ antimony = [main |-> None, error |-> None]
    /\ future = <<>>
    /\ ready = <<>>
    /\ outbox = <<>>
    /\ madeBy = <<>>
    /\ compiled = <<>>
    /\ ranOn = <<>>
    /\ simulator = NewSimulator
    /\ rrValues = NoValues
    /\ call = NoCall
    /\ loaded = None
    /\ overridden = [k \in Names |-> 0]

\* ---------------------------------------------------------------- event loop
\* `async for message in connection: asyncio.create_task(dispatch_message(..))`
Receive(m, limit) ==
    /\ conn = "open"
    /\ Len(msgs) < limit
    /\ msgs' = Append(msgs, m)
    /\ task' = Append(task, "created")
    /\ pending' = Append(pending, Len(msgs) + 1)
    /\ future' = Append(future, NoFuture)
    /\ compiled' = Append(compiled, FALSE)
    /\ ranOn' = Append(ranOn, NotRun)
    /\ UNCHANGED <<conn, workQueue, nthreads, idleSem, thr, local, sims,
                   antimony, ready, outbox, madeBy>>
    /\ UNCHANGED unitVars

\* A bounded pool that refuses work while every worker is busy.
SubmitRejectsWhenFull(i) ==
    IF idleSem = 0 /\ nthreads = MAX_THREADS_PER_SESSION
    THEN UNCHANGED <<workQueue, idleSem, nthreads, sims, local, madeBy>>
    ELSE /\ workQueue' = Append(workQueue, i)
         /\ IF idleSem > 0
            THEN /\ idleSem' = idleSem - 1
                 /\ UNCHANGED <<nthreads, sims, local, madeBy>>
            ELSE /\ idleSem' = idleSem
                 /\ nthreads' = nthreads + 1
                 /\ sims' = Append(sims, NewSimulator)
                 /\ local' = [local EXCEPT ![nthreads + 1] = Len(sims) + 1]
                 /\ madeBy' = Append(madeBy, nthreads + 1)

\* ThreadPoolExecutor.submit: queue the item, then _adjust_thread_count: take
\* the idle semaphore if it can, else start a worker while fewer than
\* max_workers exist; the new worker runs thread_initializer.
Submit(i) ==
    /\ workQueue' = Append(workQueue, i)
    /\ IF idleSem > 0
       THEN /\ idleSem' = idleSem - 1
            /\ UNCHANGED <<nthreads, sims, local, madeBy>>
       ELSE /\ idleSem' = idleSem
            /\ IF nthreads < MAX_THREADS_PER_SESSION
               THEN /\ nthreads' = nthreads + 1
                    /\ sims' = Append(sims, NewSimulator)
                    /\ local' = [local EXCEPT ![nthreads + 1] = Len(sims) + 1]
                    /\ madeBy' = Append(madeBy, nthreads + 1)
               ELSE UNCHANGED <<nthreads, sims, local, madeBy>>

\* A created task starts: dispatch_message up to its `await run_in_executor`.
\* After the executor was shut down submit raises RuntimeError, which the
\* task catches; the error path then ends in a send on the closed connection.
StartTask ==
    /\ conn # "closing"
    /\ pending # <<>>
    /\ LET i == Head(pending) IN
        /\ pending' = Tail(pending)
        /\ IF conn = "open"
           THEN /\ Submit(i)
                /\ task' = [task EXCEPT ![i] = "awaiting"]
           ELSE /\ task' = [task EXCEPT ![i] = "raised"]
                /\ UNCHANGED <<workQueue, idleSem, nthreads, sims, local,
                               madeBy>>
    /\ UNCHANGED <<conn, msgs, thr, antimony, future, ready, outbox, compiled,
                   ranOn>>
    /\ UNCHANGED unitVars

\* -------------------------------------------------------------- worker threads
\* `local` as a plain module global: every thread sees the simulator stored
\* last.
LocalSimulatorGlobal(t) == Len(sims)

\* `simulator = local.simulator`: the simulator this thread's initializer made.
LocalSimulator(t) == local[t]

\* `if action.code:` -- None and the empty string are both falsy.
Truthy(code) == code # None /\ code # ""

\* load_code without its early return.
CacheNeverHits(sim, code) == FALSE

\* Simulator.load_code, line 52: `if self.code == code: return`.
CacheHit(sim, code) == sim.code = code

\* antimony.loadAntimonyString(code): a source that parses becomes the
\* registry's main module; a rejected one records its error and leaves the
\* main module either as it was or empty.
AntimonyAfterLoad(code) ==
    IF LoadStatus(code) > 0
    THEN {[main |-> code, error |-> antimony.error]}
    ELSE {[main |-> mm, error |-> code] : mm \in {antimony.main, None}}

\* A worker takes the next work item and runs handle_message on it up to the
\* return of antimony.loadAntimonyString: validation, the thread-local
\* lookup, `if action.code`, and load_code's lines 52-57 (the cache test, the
\* assignment of self.code, the start of the conversion).
WorkerBegin(t) ==
    /\ t <= nthreads
    /\ thr[t].item = 0
    /\ workQueue # <<>>
    /\ conn # "closed"
    /\ LET i == Head(workQueue)
           m == msgs[i]
           s == LocalSimulator(t)
       IN
        /\ workQueue' = Tail(workQueue)
        /\ IF ~ActionValid(m)
           THEN /\ thr' = [thr EXCEPT ![t] = Frame(i, "invalid")]
                /\ UNCHANGED <<sims, antimony, compiled, ranOn>>
           ELSE /\ ranOn' = [ranOn EXCEPT ![i] =
                       [sim |-> s, thread |-> t, entry |-> sims[s]]]
                /\ IF Truthy(m.code) /\ ~CacheHit(sims[s], m.code)
                   THEN /\ sims' = [sims EXCEPT ![s].code = m.code]
                        /\ antimony' \in AntimonyAfterLoad(m.code)
                        /\ compiled' = [compiled EXCEPT ![i] = TRUE]
                        /\ thr' = [thr EXCEPT ![t] =
                               Frame(i, IF LoadStatus(m.code) > 0
                                        THEN "loaded" ELSE "loadfailed")]
                   ELSE /\ thr' = [thr EXCEPT ![t] = Frame(i, "noload")]
                        /\ UNCHANGED <<sims, antimony, compiled>>
    /\ UNCHANGED <<conn, msgs, task, pending, nthreads, idleSem, local,
                   future, ready, outbox, madeBy>>
    /\ UNCHANGED unitVars

\* The rest of load_code after a successful loadAntimonyString (lines 57-74):
\* getSBMLString reads the registry's main module as it is now; an empty
\* registry yields no SBML and RoadRunner(None) raises after self.sbml was set.
LoadCodeFinish(sim) ==
    IF antimony.main = None
    THEN [sim EXCEPT !.sbml = NoSbml]
    ELSE [sim EXCEPT !.sbml = SbmlOf(antimony.main),
                     !.rr = EngineOf(SbmlOf(antimony.main)),
                     !.cached = MetaOf(EngineOf(SbmlOf(antimony.main)))]
LoadCodeRaises == antimony.main = None

\* compute_steady_state, lines 131-132: build the engine when there is none.
SteadyStateEngine(sim) ==
    IF sim.rr = NoEngine /\ sim.sbml # NoSbml
    THEN [sim EXCEPT !.rr = EngineOf(sim.sbml)]
    ELSE sim

\* The `match action` of handle_message on a simulator whose load_code (if
\* any) returned: the simulator afterwards.
SimAfterAction(sim, m) ==
    IF m.type = "steadyState" THEN SteadyStateEngine(sim) ELSE sim

\* The SteadyStateAction case calling simulate_time_course.
ActionOutcomeMiscased(sim, m, engineOk) ==
    CASE m.type = "loadModel" ->
           IF sim.cached = Unset THEN Raised("AttributeError")
           ELSE Result(m.id, "loadModel", sim.cached[2])
      [] m.type \in {"timeCourse", "steadyState"} ->
           IF sim.rr = NoEngine THEN Raised("AttributeError")
           ELSE IF ~engineOk THEN Raised("RuntimeError")
           ELSE Result(m.id, "timeCourse", sim.rr[2])

\* ... and what handle_message returns or raises.  engineOk: whether the
\* engine's simulate / steadyState call succeeds.
ActionOutcome(sim, m, engineOk) ==
    CASE m.type = "loadModel" ->
           IF sim.cached = Unset THEN Raised("AttributeError")
           ELSE Result(m.id, "loadModel", sim.cached[2])
      [] m.type = "timeCourse" ->
           IF sim.rr = NoEngine THEN Raised("AttributeError")
           ELSE IF ~engineOk THEN Raised("RuntimeError")
           ELSE Result(m.id, "timeCourse", sim.rr[2])
      [] m.type = "steadyState" ->
           IF SteadyStateEngine(sim).rr = NoEngine THEN Raised("TypeError")
           ELSE IF ~engineOk THEN Raised("RuntimeError")
           ELSE Result(m.id, "steadyState", SteadyStateEngine(sim).rr[2])

\* The worker finishes its work item: the rest of handle_message, the
\* future's result or exception, the completion callback handed to the event
\* loop, and the release of the idle semaphore.
WorkerFinish(t) ==
    /\ thr[t].item # 0
    /\ LET i == thr[t].item
           m == msgs[i]
           s == LocalSimulator(t)
           ph == thr[t].phase
       IN
        \E engineOk \in BOOLEAN :
          /\ CASE ph = "invalid" ->
                   /\ future' = [future EXCEPT ![i] = Raised("ValidationError")]
                   /\ sims' = sims
              [] ph = "loadfailed" ->
                   /\ future' = [future EXCEPT ![i] = Raised("ValueError")]
                   /\ sims' = sims
              [] ph = "loaded" /\ LoadCodeRaises ->
                   /\ future' = [future EXCEPT ![i] = Raised("TypeError")]
                   /\ sims' = [sims EXCEPT ![s] = LoadCodeFinish(sims[s])]
              [] ph = "loaded" /\ ~LoadCodeRaises ->
                   /\ future' = [future EXCEPT ![i] =
                          ActionOutcome(LoadCodeFinish(sims[s]), m, engineOk)]
                   /\ sims' = [sims EXCEPT ![s] =
                          SimAfterAction(LoadCodeFinish(sims[s]), m)]
              [] ph = "noload" ->
                   /\ future' = [future EXCEPT ![i] =
                          ActionOutcome(sims[s], m, engineOk)]
                   /\ sims' = [sims EXCEPT ![s] = SimAfterAction(sims[s], m)]
          /\ ready' = Append(ready, i)
    /\ thr' = [thr EXCEPT ![t] = IdleThread]
    /\ idleSem' = idleSem + 1
    /\ UNCHANGED <<conn, msgs, task, pending, workQueue, nthreads, local,
                   antimony, outbox, madeBy, compiled, ranOn>>
    /\ UNCHANGED unitVars

\* ------------------------------------------------- responses and connection
\* `await dispatch_message(message)` in the read loop: a task's exception
\* leaves `handle`.
ReadLoopAwaitsTask(taskEnd, c) ==
    IF taskEnd = "raised" /\ c = "open" THEN "closing" ELSE c

\* The read loop only creates the task (line 101) and never awaits it: what
\* a task ends with does not reach `handle`, so the connection state after a
\* task ended is the one before.
ReadLoopAfter(taskEnd, c) == c

Sent(i, body) ==
    [msg |-> i, kind |-> body.kind, id |-> body.id, variant |-> body.variant,
     of |-> body.of]

\* The error path re-raising whenever handle_message raised.
DispatchEndDropsErrors(c, fut, m) ==
    IF c # "closed" /\ fut.kind = "Result" THEN "sent" ELSE "raised"

\* How dispatch_message ends after its await (lines 86-98).  A Result is
\* sent; otherwise BareAction re-reads the raw message for its id and an
\* ErrorResult is sent, and when BareAction fails too the exception is
\* re-raised and nothing is sent.  On a closed connection every send raises.
DispatchEnd(c, fut, m) ==
    IF c = "closed" THEN "raised"
    ELSE IF fut.kind = "Result" THEN "sent"
    ELSE IF BareActionValid(m) THEN "sent"
    ELSE "raised"

\* The `else:` of line 88 missing: the error path runs after a Result was
\* sent as well.
OutboxAfterNoElse(out, i, end, fut, m) ==
    IF end = "raised" THEN out
    ELSE IF fut.kind = "Result"
         THEN IF BareActionValid(m)
              THEN Append(Append(out, Sent(i, fut)),
                          Sent(i, ErrorResult(BareActionId(m))))
              ELSE Append(out, Sent(i, fut))
         ELSE Append(out, Sent(i, ErrorResult(BareActionId(m))))

\* What the task's `await connection.send(...)` puts on the connection
\* (lines 86-95): the Result, or else the ErrorResult with BareAction's id.
OutboxAfter(out, i, end, fut, m) ==
    IF end = "raised" THEN out
    ELSE IF fut.kind = "Result"
         THEN Append(out, Sent(i, fut))
         ELSE Append(out, Sent(i, ErrorResult(BareActionId(m))))

\* dispatch_message from its await on (lines 82-98), run when the event loop
\* reaches the future's completion callback.
Deliver ==
    /\ conn # "closing"
    /\ ready # <<>>
    /\ LET i == Head(ready)
           m == msgs[i]
           end == DispatchEnd(conn, future[i], m)
       IN
        /\ ready' = Tail(ready)
        /\ task' = [task EXCEPT ![i] = end]
        /\ outbox' = OutboxAfter(outbox, i, end, future[i], m)
        /\ conn' = ReadLoopAfter(end, conn)
    /\ UNCHANGED <<msgs, pending, workQueue, nthreads, idleSem, thr, local,
                   sims, antimony, future, madeBy, compiled, ranOn>>
    /\ UNCHANGED unitVars

\* The peer closes: `async for` ends and `handle` leaves the `with` block,
\* whose exit is executor.shutdown(wait=True), called on the event loop.
Close ==
    /\ conn = "open"
    /\ conn' = "closing"
    /\ UNCHANGED <<msgs, task, pending, workQueue, nthreads, idleSem, thr,
                   local, sims, antimony, future, ready, outbox, madeBy,
                   compiled, ranOn>>
    /\ UNCHANGED unitVars

\* shutdown(wait=False): `handle` returns while workers are still running.
JoinWorkersNoWait ==
    /\ conn = "closing"
    /\ conn' = "closed"
    /\ UNCHANGED <<msgs, task, pending, workQueue, nthreads, idleSem, thr,
                   local, sims, antimony, future, ready, outbox, madeBy,
                   compiled, ranOn>>
    /\ UNCHANGED unitVars

\* shutdown(wait=True) returns once the work queue is drained and every
\* worker has finished; `handle` returns.
JoinWorkers ==
    /\ conn = "closing"
    /\ workQueue = <<>>
    /\ \A t \in Threads : thr[t].item = 0
    /\ conn' = "closed"
    /\ UNCHANGED <<msgs, task, pending, workQueue, nthreads, idleSem, thr,
                   local, sims, antimony, future, ready, outbox, madeBy,
                   compiled, ranOn>>
    /\ UNCHANGED unitVars

\* ---------------------------------------------------------- specifications
\* The protocol on one connection, from accept to teardown: every action
\* variant, a load error, a missing model and the three undecodable shapes.
Messages(n) ==
    {RawMessage(TRUE, n, ty, "codeA") : ty \in Types}
    \cup {RawMessage(TRUE, n, "timeCourse", None),
          RawMessage(TRUE, n, "loadModel", "codeX")}
    \cup InvalidMessages(n)

Next ==
    \/ \E m \in Messages(Len(msgs) + 1) : Receive(m, MaxMsgs)
    \/ StartTask
    \/ \E t \in Threads : WorkerBegin(t)
    \/ \E t \in Threads : WorkerFinish(t)
    \/ Deliver
    \/ Close
    \/ JoinWorkers

Spec == Init /\ [][Next]_vars

\* Model loading on a connection that stays open: LoadModel actions over
\* every code, absent included.
LoadMessages(n) ==
    {RawMessage(TRUE, n, "loadModel", c) : c \in Codes \cup {None}}

NextLoad ==
    \/ \E m \in LoadMessages(Len(msgs) + 1) : Receive(m, MaxLoadMsgs)
    \/ StartTask
    \/ \E t \in Threads : WorkerBegin(t)
    \/ \E t \in Threads : WorkerFinish(t)
    \/ Deliver

LoadSpec == Init /\ [][NextLoad]_vars

\* TimeCourse actions on a connection that stays open, with the scheduling
\* the event loop and the pool give: a started task, a queued work item, a
\* running work item and a completed future are each eventually served.
TimeCourseMessages(n) ==
    {RawMessage(TRUE, n, "timeCourse", c) : c \in {"codeA", None}}

NextLive ==
    \/ \E m \in TimeCourseMessages(Len(msgs) + 1) : Receive(m, MaxLiveMsgs)
    \/ StartTask
    \/ \E t \in Threads : WorkerBegin(t)
    \/ \E t \in Threads : WorkerFinish(t)
    \/ Deliver

LiveSpec ==
    /\ Init
    /\ [][NextLive]_vars
    /\ WF_vars(StartTask)
    /\ WF_vars(Deliver)
    /\ \A t \in Threads : WF_vars(WorkerBegin(t)) /\ WF_vars(WorkerFinish(t))

\* A connection that the client may close at any moment, with the scheduling
\* of LiveSpec and a shutdown that returns once the workers are done.
NextLife ==
    \/ \E m \in TimeCourseMessages(Len(msgs) + 1) : Receive(m, MaxLifeMsgs)
    \/ StartTask
    \/ \E t \in Threads : WorkerBegin(t)
    \/ \E t \in Threads : WorkerFinish(t)
    \/ Deliver
    \/ Close
    \/ JoinWorkers

LifeSpec ==
    /\ Init /\ [][NextLife]_vars
    /\ WF_vars(StartTask) /\ WF_vars(Deliver) /\ WF_vars(JoinWorkers)
    /\ \A t \in Threads : WF_vars(WorkerBegin(t)) /\ WF_vars(WorkerFinish(t))

\* More actions in flight than the pool has workers: one client sending the
\* same LoadModel without code over and over on a connection that stays open.
PoolMessages(n) == {RawMessage(TRUE, n, "loadModel", None)}

NextPool ==
    \/ \E m \in PoolMessages(Len(msgs) + 1) : Receive(m, MaxPoolMsgs)
    \/ StartTask
    \/ \E t \in Threads : WorkerBegin(t)
    \/ \E t \in Threads : WorkerFinish(t)
    \/ Deliver

PoolSpec == Init /\ [][NextPool]_vars

\* Actions that bring no code, of each variant, next to one LoadModel that
\* brings a model: workers whose Simulator has a model and workers whose
\* Simulator has none.
NoCodeMessages(n) ==
    {RawMessage(TRUE, n, t, None) : t \in Types}
        \cup {RawMessage(TRUE, n, "loadModel", "codeA")}

NextNoCode ==
    \/ \E m \in NoCodeMessages(Len(msgs) + 1) : Receive(m, MaxNoCodeMsgs)
    \/ StartTask
    \/ \E t \in Threads : WorkerBegin(t)
    \/ \E t \in Threads : WorkerFinish(t)
    \/ Deliver

NoCodeSpec == Init /\ [][NextNoCode]_vars

\* ------------------------------------------------------- the Simulator alone
serverVars ==
    <<conn, msgs, task, pending, workQueue, nthreads, idleSem, thr, local,
      sims, antimony, future, ready, outbox, madeBy, compiled, ranOn>>

\* load_code refreshing the cached metadata only when there is none yet.
LoadCodeKeepsInfo(sim, code) ==
    IF CacheHit(sim, code) THEN sim
    ELSE IF LoadStatus(code) > 0
         THEN [code |-> code, sbml |-> SbmlOf(code),
               rr |-> EngineOf(SbmlOf(code)),
               cached |-> IF sim.cached = Unset
                          THEN MetaOf(EngineOf(SbmlOf(code)))
                          ELSE sim.cached]
         ELSE [sim EXCEPT !.code = code]

\* Simulator.load_code called on its own thread, nobody else touching the
\* antimony registry: the early return, the assignment of self.code, then
\* either the conversion's ValueError or the new SBML, engine and metadata.
LoadCode(sim, code) ==
    IF CacheHit(sim, code) THEN sim
    ELSE IF LoadStatus(code) > 0
         THEN [code |-> code, sbml |-> SbmlOf(code),
               rr |-> EngineOf(SbmlOf(code)),
               cached |-> MetaOf(EngineOf(SbmlOf(code)))]
         ELSE [sim EXCEPT !.code = code]

LoadCodeReturns(sim, code) == CacheHit(sim, code) \/ LoadStatus(code) > 0

\* get_model_info: the LoadModelResult built from the cached attributes,
\* which hold the engine's values as they were read right after the load.
GetModelInfo(sim) ==
    [of |-> sim.cached[2], values |-> InitialValues(sim.cached[2])]

\* _set_variables without the `in model_keys` tests.
SetVariablesUnchecked(vals, vv, scan) ==
    LET named == DOMAIN vv \cup
                 (IF scan = NoScan THEN {} ELSE {scan.varying_parameter})
    IN [k \in DOMAIN vals \cup named |->
          IF scan # NoScan /\ scan.varying_parameter = k
          THEN scan.varying_parameter_value
          ELSE IF k \in DOMAIN vv THEN vv[k] ELSE vals[k]]

\* The loop of _set_variables over variable_values.items() (lines 207-209).
RECURSIVE SetValues(_, _, _)
SetValues(vals, vv, todo) ==
    IF todo = {} THEN vals
    ELSE LET name == CHOOSE n \in todo : TRUE
         IN SetValues(IF name \in DOMAIN vals
                      THEN [vals EXCEPT ![name] = vv[name]]
                      ELSE vals,
                      vv, todo \ {name})

\* _set_variables: the loop, then the parameter-scan assignment.
SetVariables(vals, vv, scan) ==
    LET set == SetValues(vals, vv, DOMAIN vv)
    IN IF scan # NoScan /\ scan.varying_parameter \in DOMAIN set
       THEN [set EXCEPT ![scan.varying_parameter] =
                            scan.varying_parameter_value]
       ELSE set

\* simulate_time_course calling resetAll() whatever the flag says.
ResetAlways(reset, vals, model) == InitialValues(model)

\* simulate_time_course, lines 105-106: `if reset_initial_conditions:
\* self._roadrunner.resetAll()`.
ResetIf(reset, vals, model) == IF reset THEN InitialValues(model) ELSE vals

\* compute_steady_state without its resetAll().
SteadyStateNoReset(vals, model) == vals

\* compute_steady_state, line 134: resetAll(), unconditionally.
SteadyStateReset(vals, model) == InitialValues(model)

\* The engine's values after simulate() or steadyState() ran from `start`:
\* a species is wherever the run left it, a rate constant where it was.
EngineAfterRun(start) ==
    {v \in [DOMAIN start -> Values] :
        \A k \in DOMAIN start : k \notin Species => v[k] = start[k]}

\* The requests' variable_values dicts and parameter-scan options.
VariableValues == {[n \in S |-> OverrideValue] : S \in SUBSET Names}
ScanOptions ==
    {NoScan} \cup
    {[varying_parameter |-> n, varying_parameter_value |-> ScanValue] :
        n \in Names}
Specified(k, vv, scan) ==
    k \in DOMAIN vv \/ (scan # NoScan /\ scan.varying_parameter = k)
OverriddenAfter(prior, reset, vv, scan, keys) ==
    [k \in Names |->
        IF k \notin keys THEN 0
        ELSE IF scan # NoScan /\ scan.varying_parameter = k
             THEN scan.varying_parameter_value
        ELSE IF k \in DOMAIN vv THEN vv[k]
        ELSE IF reset THEN 0 ELSE prior[k]]

CallRaised(op) == [NoCall EXCEPT !.op = op, !.raised = TRUE, !.prior = overridden]

\* simulator.load_code(code)
SimLoadCode(code) ==
    /\ simulator' = LoadCode(simulator, code)
    /\ IF CacheHit(simulator, code)
       THEN UNCHANGED <<rrValues, loaded, overridden>>
       ELSE IF LoadStatus(code) > 0
            THEN /\ rrValues' = InitialValues(code)
                 /\ loaded' = code
                 /\ overridden' = [k \in Names |-> 0]
            ELSE UNCHANGED <<rrValues, loaded, overridden>>
    /\ call' = [NoCall EXCEPT !.op = "load_code", !.prior = overridden,
                              !.raised = ~LoadCodeReturns(simulator, code)]
    /\ UNCHANGED serverVars

\* simulator.get_model_info()
SimGetModelInfo ==
    /\ call' = IF simulator.cached = Unset
               THEN CallRaised("get_model_info")
               ELSE [NoCall EXCEPT !.op = "get_model_info",
                                   !.before = rrValues, !.prior = overridden,
                                   !.ret = GetModelInfo(simulator)]
    /\ UNCHANGED <<simulator, rrValues, loaded, overridden>>
    /\ UNCHANGED serverVars

\* simulator.simulate_time_course(..., reset_initial_conditions=reset,
\* variable_values=vv, parameter_scan_options=scan): the reset, the
\* overrides, then the run, which may also fail in the engine.
SimTimeCourse(reset, vv, scan) ==
    /\ IF simulator.rr = NoEngine
       THEN /\ call' = CallRaised("simulate_time_course")
            /\ UNCHANGED <<rrValues, overridden>>
       ELSE LET model == simulator.rr[2]
                base == ResetIf(reset, rrValues, model)
                start == SetVariables(base, vv, scan)
            IN \E after \in EngineAfterRun(start), engineOk \in BOOLEAN :
                /\ rrValues' = after
                /\ overridden' = OverriddenAfter(overridden, reset, vv, scan,
                                                 ModelKeys(model))
                /\ call' = [op |-> "simulate_time_course", reset |-> reset,
                            vv |-> vv, scan |-> scan, before |-> rrValues,
                            base |-> base, start |-> start,
                            prior |-> overridden, raised |-> ~engineOk,
                            ret |-> NoInfo]
    /\ UNCHANGED <<simulator, loaded>>
    /\ UNCHANGED serverVars

\* simulator.compute_steady_state(variable_values=vv,
\* parameter_scan_options=scan).
SimSteadyState(vv, scan) ==
    /\ simulator' = SteadyStateEngine(simulator)
    /\ IF SteadyStateEngine(simulator).rr = NoEngine
       THEN /\ call' = CallRaised("compute_steady_state")
            /\ UNCHANGED <<rrValues, overridden>>
       ELSE LET model == SteadyStateEngine(simulator).rr[2]
                held == IF simulator.rr = NoEngine
                        THEN InitialValues(model) ELSE rrValues
                base == SteadyStateReset(held, model)
                start == SetVariables(base, vv, scan)
            IN \E after \in EngineAfterRun(start), engineOk \in BOOLEAN :
                /\ rrValues' = after
                /\ overridden' = OverriddenAfter(overridden, TRUE, vv, scan,
                                                 ModelKeys(model))
                /\ call' = [op |-> "compute_steady_state", reset |-> TRUE,
                            vv |-> vv, scan |-> scan, before |-> held,
                            base |-> base, start |-> start,
                            prior |-> overridden, raised |-> ~engineOk,
                            ret |-> NoInfo]
    /\ UNCHANGED loaded
    /\ UNCHANGED serverVars

NextSim ==
    \/ \E code \in Codes : SimLoadCode(code)
    \/ SimGetModelInfo
    \/ \E reset \in BOOLEAN, vv \in VariableValues, scan \in ScanOptions :
          SimTimeCourse(reset, vv, scan)
    \/ \E vv \in VariableValues, scan \in ScanOptions :
          SimSteadyState(vv, scan)

SimSpec == Init /\ [][NextSim]_vars

\* ------------------------------------------------------------------ claims
Received == 1..Len(msgs)
Ended(i) == task[i] \in {"sent", "raised"}
\* The positions of the outbox that answer message i.
Responses(i) == {k \in 1..Len(outbox) : outbox[k].msg = i}
\* The raw text holds an integer id, whether or not the text is valid JSON.
IdLocatable(m) == m.id # NoId

\* C1 -- no silence.  A dispatch task that has ended can send nothing any
\* more, so the claim requires of every state: on a connection that is
\* still open, each message whose task has ended has an outbound message.
C1_NoSilence ==
    \A i \in Received :
        (conn = "open" /\ Ended(i)) => Responses(i) # {}

\* C2 -- a message that fails decoding yields exactly one ErrorResult, which
\* carries the message's id when the raw message holds one (and a sentinel
\* id otherwise); the response is never dropped.
C2_DecodeFailureAnswered ==
    \A i \in Received :
        (conn = "open" /\ ~ActionValid(msgs[i]) /\ Ended(i)) =>
            /\ Cardinality(Responses(i)) = 1
            /\ \A k \in Responses(i) :
                  /\ outbox[k].kind = "ErrorResult"
                  /\ IdLocatable(msgs[i]) => outbox[k].id = msgs[i].id

\* C3 -- every Result sent answers a valid Action, carries that Action's id
\* and holds the data variant of that Action's type, whatever ran
\* concurrently.
C3_ResultMatchesAction ==
    \A k \in 1..Len(outbox) :
        outbox[k].kind = "Result" =>
            /\ ActionValid(msgs[outbox[k].msg])
            /\ outbox[k].id = msgs[outbox[k].msg].id
            /\ outbox[k].variant = msgs[outbox[k].msg].type

\* Two actions of different types ran concurrently, the later one finished
\* first, and both Results are out.
C3_Witness ==
    /\ Len(outbox) = 2
    /\ outbox[1].kind = "Result" /\ outbox[2].kind = "Result"
    /\ outbox[1].msg = 2 /\ outbox[2].msg = 1
    /\ outbox[1].variant # outbox[2].variant
    /\ ranOn[1].thread # ranOn[2].thread

\* C7 (as claimed) -- of two LoadModel actions in a row on the connection
\* with identical code, at most one calls the compiler, and the two
\* responses carry identical metadata.
SameCodeLoadPair(i) ==
    /\ i \in Received /\ i + 1 \in Received
    /\ ActionValid(msgs[i]) /\ ActionValid(msgs[i + 1])
    /\ msgs[i].type = "loadModel" /\ msgs[i + 1].type = "loadModel"
    /\ Truthy(msgs[i].code) /\ msgs[i].code = msgs[i + 1].code
    /\ task[i] = "sent" /\ task[i + 1] = "sent"
SameMetadata(i, j) ==
    \A k \in Responses(i), l \in Responses(j) :
        (outbox[k].kind = "Result" /\ outbox[l].kind = "Result")
            => outbox[k].of = outbox[l].of
C7_CompiledOncePerConnection ==
    \A i \in Received :
        SameCodeLoadPair(i) =>
            /\ ~(compiled[i] /\ compiled[i + 1])
            /\ SameMetadata(i, i + 1)

\* C7 (amended) -- ... when both are run by the same pool slot, on its one
\* Simulator: then the second never calls the compiler, and two Results
\* carry identical metadata.
C7_CompiledOncePerSlot ==
    \A i \in Received :
        (SameCodeLoadPair(i) /\ ranOn[i].sim = ranOn[i + 1].sim) =>
            /\ ~compiled[i + 1]
            /\ SameMetadata(i, i + 1)

\* The same slot served both, the first compiled, the second did not, and
\* both Results are out.
C7_Witness ==
    /\ SameCodeLoadPair(1)
    /\ ranOn[1].sim = ranOn[2].sim
    /\ compiled[1] /\ ~compiled[2]
    /\ \E k \in Responses(1), l \in Responses(2) :
          /\ outbox[k].kind = "Result" /\ outbox[l].kind = "Result"
          /\ outbox[k].of = "codeA" /\ outbox[l].of = "codeA"

\* C8 -- no step that ends a work item or a dispatch task, failing or not,
\* changes the connection's state: the connection leaves Open only when the
\* peer closes, and the read loop goes on reading while it is Open.
C8_ErrorsKeepConnectionOpen ==
    [][(task' # task \/ future' # future) => conn' = conn]_vars

\* On an open connection the first message's task died in its error path,
\* and the second message was still executed and answered.
C8_Witness ==
    /\ conn = "open"
    /\ Len(msgs) = 2
    /\ task[1] = "raised" /\ future[1].kind = "exception"
    /\ task[2] = "sent" /\ future[2].kind = "Result"
    /\ outbox[1].msg = 2

\* C9 -- no two workers execute against the same Simulator at once, and
\* every message was run against a Simulator by the very thread whose
\* initializer constructed that Simulator (the event loop is thread 0 and
\* constructs none).
Executing(t) == thr[t].item # 0 /\ thr[t].phase # "invalid"
C9_ThreadAffinity ==
    /\ \A t1, t2 \in Threads :
          (t1 # t2 /\ Executing(t1) /\ Executing(t2))
              => LocalSimulator(t1) # LocalSimulator(t2)
    /\ \A i \in Received :
          ranOn[i] # NotRun =>
              /\ ranOn[i].thread \in 1..nthreads
              /\ madeBy[ranOn[i].sim] = ranOn[i].thread

\* Two workers execute at once, each against its own Simulator.
C9_Witness ==
    /\ Executing(1) /\ Executing(2)
    /\ ranOn[thr[1].item].sim = 1
    /\ ranOn[thr[2].item].sim = 2
    /\ madeBy = <<1, 2>>

\* Message i was run against a Simulator and handle_message has returned or
\* raised; nothing ran against that Simulator since.
Returned(i) == ranOn[i] # NotRun /\ future[i] # NoFuture
LastOnItsSimulator(i) ==
    /\ Returned(i)
    /\ \A j \in Received : (j > i /\ ranOn[j] # NotRun)
                              => ranOn[j].sim # ranOn[i].sim
\* j is the next message run against the Simulator that ran i.
NextOnSimulator(i, j) ==
    /\ i < j /\ ranOn[i] # NotRun /\ ranOn[j] # NotRun
    /\ ranOn[i].sim = ranOn[j].sim
    /\ \A l \in Received :
          (i < l /\ l < j /\ ranOn[l] # NotRun) => ranOn[l].sim # ranOn[i].sim

\* C4 -- every response to an action whose code fails compilation is an
\* ErrorResult with that action's id, on every submission of that code; and
\* the LoadModel action that follows it on the same session, carrying no
\* code, is answered with the metadata the session held before.
C4_CompileFailureReported ==
    /\ \A k \in 1..Len(outbox) :
          msgs[outbox[k].msg].code \in BadCodes =>
              /\ outbox[k].kind = "ErrorResult"
              /\ outbox[k].id = msgs[outbox[k].msg].id
    /\ \A i, j \in Received :
          ( /\ NextOnSimulator(i, j)
            /\ msgs[i].code \in BadCodes
            /\ ranOn[i].entry.cached # Unset
            /\ msgs[j].type = "loadModel" /\ msgs[j].code = None
            /\ task[j] = "sent" )
          => \A k \in Responses(j) :
                /\ outbox[k].kind = "Result"
                /\ outbox[k].of = ranOn[i].entry.cached[2]

\* C5 -- a load_code call that the compiler rejected (it raised ValueError)
\* leaves the Simulator as it found it: code, sbml, engine and cached
\* metadata.
C5_RejectedLoadLeavesSession ==
    \A i \in Received :
        (LastOnItsSimulator(i) /\ future[i] = Raised("ValueError"))
            => sims[ranOn[i].sim] = ranOn[i].entry

\* C10 -- a Simulator whose last call compiled a valid code holds the engine
\* and the metadata of that code, whatever other slots compiled meanwhile.
C10_SlotHoldsItsOwnModel ==
    \A i \in Received :
        ( /\ LastOnItsSimulator(i)
          /\ compiled[i]
          /\ msgs[i].code \in GoodCodes )
        => /\ sims[ranOn[i].sim].rr = EngineOf(SbmlOf(msgs[i].code))
           /\ sims[ranOn[i].sim].cached
                 = MetaOf(EngineOf(SbmlOf(msgs[i].code)))

\* C6 -- on an open connection every TimeCourse action read is eventually
\* answered by a message carrying its id.
Answered(i) ==
    \E k \in 1..Len(outbox) :
        outbox[k].msg = i /\ outbox[k].id = msgs[i].id
C6_TimeCoursesAnswered ==
    \A i \in 1..MaxLiveMsgs : (Len(msgs) >= i) ~> Answered(i)

\* Responses are not put back into arrival order: of two TimeCourse actions
\* the second was answered first, each answer with its own id.
C6_Witness ==
    /\ Len(outbox) = 2
    /\ msgs[1].type = "timeCourse" /\ msgs[2].type = "timeCourse"
    /\ outbox[1].msg = 2 /\ outbox[1].id = msgs[2].id
    /\ outbox[2].msg = 1 /\ outbox[2].id = msgs[1].id

\* C11 -- a valid action without code is run against the code of the last
\* action before it on the connection that carried code: when that code
\* compiles, a LoadModel without code is answered with that code's metadata.
CarriesCode(i) == ActionValid(msgs[i]) /\ Truthy(msgs[i].code)
LastCodeBefore(j) ==
    LET withCode == {i \in 1..(j - 1) : CarriesCode(i)}
    IN IF withCode = {} THEN None
       ELSE msgs[CHOOSE i \in withCode : \A l \in withCode : l <= i].code
C11_NoCodeUsesLastCode ==
    \A j \in Received :
        ( /\ ActionValid(msgs[j]) /\ ~Truthy(msgs[j].code)
          /\ msgs[j].type = "loadModel"
          /\ LastCodeBefore(j) \in GoodCodes
          /\ task[j] = "sent" )
        => \A k \in Responses(j) :
              outbox[k].kind = "Result" /\ outbox[k].of = LastCodeBefore(j)

\* C14 -- while an action executes on a worker, the event loop can still
\* take the steps it has work for: start a created task, run a completed
\* future's callback (send its response), read on from an open connection.
SomeActionExecuting == \E t \in Threads : thr[t].item # 0
C14_LoopNeverBlocked ==
    SomeActionExecuting =>
        /\ pending # <<>> => ENABLED StartTask
        /\ ready # <<>> => ENABLED Deliver

\* C20 -- an inbound message has at most one outbound message, and every
\* outbound message answers a message that was read, with that message's id.
C20_AtMostOneResponse ==
    /\ \A i \in Received : Cardinality(Responses(i)) <= 1
    /\ \A k \in 1..Len(outbox) :
          /\ outbox[k].msg \in Received
          /\ outbox[k].id = msgs[outbox[k].msg].id

\* Both messages are answered, one with a Result and one with an ErrorResult,
\* and both tasks are over.
C20_Witness ==
    /\ Len(msgs) = 2 /\ Len(outbox) = 2
    /\ task[1] = "sent" /\ task[2] = "sent"
    /\ Cardinality(Responses(1)) = 1 /\ Cardinality(Responses(2)) = 1
    /\ \E k, l \in 1..2 :
          outbox[k].kind = "Result" /\ outbox[l].kind = "ErrorResult"

\* C12 -- the connection goes open, closing, closed and never back; once it
\* has left open no message is read and no task is handed to the pool; an
\* action a worker has begun is left only by finishing it; the pool is
\* closed only with an empty queue, idle workers and a completed future for
\* every task still waiting on one; a closing connection is eventually
\* closed, and every waiting task eventually ends, sent or discarded.
LifecycleStep ==
    /\ conn' # conn => \/ conn = "open" /\ conn' = "closing"
                       \/ conn = "closing" /\ conn' = "closed"
    /\ conn # "open" =>
          /\ msgs' = msgs
          /\ Len(workQueue') <= Len(workQueue)
          /\ \A i \in Received : task'[i] = "awaiting" => task[i] = "awaiting"
    /\ \A t \in Threads :
          (thr[t].item # 0 /\ thr'[t].item # thr[t].item)
              => future'[thr[t].item] # NoFuture
PoolDrained ==
    /\ workQueue = <<>>
    /\ \A t \in Threads : thr[t].item = 0
    /\ \A i \in Received : task[i] = "awaiting" => future[i] # NoFuture
C12_Lifecycle ==
    /\ [][LifecycleStep]_vars
    /\ [](conn = "closed" => PoolDrained)
    /\ (conn = "closing") ~> (conn = "closed")
    /\ \A i \in 1..MaxLifeMsgs :
          (Len(msgs) >= i /\ task[i] = "awaiting")
              ~> (Len(msgs) >= i /\ task[i] \in {"sent", "raised"})

\* The pool is closed; one response was delivered before the close, and one
\* action ran to completion with its response discarded.
C12_Witness ==
    /\ conn = "closed"
    /\ \E i, j \in Received :
          /\ task[i] = "sent" /\ Responses(i) # {}
          /\ task[j] = "raised" /\ future[j] # NoFuture /\ Responses(j) = {}

\* C13 -- at most MAX_THREADS_PER_SESSION actions execute at once and at
\* most that many Simulators exist; a Simulator is created only together with
\* the worker that owns it and a worker's Simulator is never exchanged; an
\* action handed to the pool is, until its future completes, in the queue or
\* on a worker, and a queued action always has a worker that can take it or
\* a busy worker that will come back for it.
ExecutingActions ==
    {i \in Received : ranOn[i] # NotRun /\ future[i] = NoFuture}
Queued(i) == \E k \in 1..Len(workQueue) : workQueue[k] = i
PoolWithinCapacity ==
    /\ Cardinality(ExecutingActions) <= MAX_THREADS_PER_SESSION
    /\ nthreads <= MAX_THREADS_PER_SESSION
    /\ Len(sims) = nthreads
    /\ \A t, u \in 1..nthreads :
          local[t] \in 1..Len(sims) /\ (t # u => local[t] # local[u])
NeverLost ==
    /\ \A i \in Received :
          (task[i] = "awaiting" /\ future[i] = NoFuture)
              => (Queued(i) \/ \E t \in Threads : thr[t].item = i)
    /\ workQueue # <<>> =>
          \/ \E t \in Threads : ENABLED WorkerBegin(t)
          \/ \E t \in Threads : thr[t].item # 0 /\ ENABLED WorkerFinish(t)
SessionsStay ==
    /\ \A t \in 1..nthreads : local'[t] = local[t]
    /\ Len(sims') >= Len(sims)
    /\ Len(sims') > Len(sims) =>
          /\ Len(sims') = Len(sims) + 1
          /\ nthreads' = nthreads + 1
          /\ local'[nthreads'] = Len(sims')
          /\ sims'[Len(sims')] = NewSimulator
    /\ \A i \in Received :
          Queued(i) /\ ~Queued(i)' => \E t \in Threads : thr'[t].item = i
C13_PoolCapacity ==
    /\ [](PoolWithinCapacity /\ NeverLost)
    /\ [][SessionsStay]_vars

\* Every worker is executing an action and a further one waits in the queue.
C13_Witness ==
    /\ Cardinality(ExecutingActions) = MAX_THREADS_PER_SESSION
    /\ workQueue # <<>>
    /\ Len(sims) = MAX_THREADS_PER_SESSION

\* C15 -- an action without code, of whichever variant, that ran on a
\* Simulator holding neither SBML nor an engine ends in an exception, and
\* what is sent for it is one ErrorResult with the action's id.
OnEmptySession(i) ==
    /\ ActionValid(msgs[i]) /\ ~Truthy(msgs[i].code)
    /\ ranOn[i] # NotRun
    /\ ranOn[i].entry.sbml = NoSbml /\ ranOn[i].entry.rr = NoEngine
C15_NoCodeNoModelFails ==
    \A i \in Received : OnEmptySession(i) =>
        /\ future[i] # NoFuture => future[i].kind = "exception"
        /\ Ended(i) =>
              /\ task[i] = "sent"
              /\ Cardinality(Responses(i)) = 1
              /\ \A k \in Responses(i) :
                    outbox[k].kind = "ErrorResult" /\ outbox[k].id = msgs[i].id

\* A SteadyState and an action of another variant, both without code, each
\* run on a Simulator without a model and each answered with an ErrorResult.
C15_Witness ==
    /\ Len(msgs) = 2
    /\ msgs[1].type # msgs[2].type
    /\ \E i \in Received : msgs[i].type = "steadyState"
    /\ \A i \in Received :
          /\ OnEmptySession(i) /\ task[i] = "sent"
          /\ \E k \in Responses(i) : outbox[k].kind = "ErrorResult"

\* The last call was a run on an engine: its overrides were applied.
AppliedOverrides ==
    /\ call.op \in {"simulate_time_course", "compute_steady_state"}
    /\ call.base # NoValues
EngineModel == simulator.rr[2]
Unknown(k) == k \notin ModelKeys(EngineModel)

\* C16 -- after the overrides of a call were applied the engine holds values
\* for exactly its model's symbols: the parameter-scan value for the scanned
\* symbol, else the variable_values entry for a symbol that has one, else
\* the value it held before; names the model does not have add nothing and
\* stop nothing.
C16_OverridesSetKnownNames ==
    AppliedOverrides =>
        /\ DOMAIN call.start = ModelKeys(EngineModel)
        /\ \A k \in ModelKeys(EngineModel) :
              call.start[k] =
                  IF call.scan # NoScan /\ call.scan.varying_parameter = k
                  THEN call.scan.varying_parameter_value
                  ELSE IF k \in DOMAIN call.vv THEN call.vv[k]
                  ELSE call.base[k]

\* A request naming a symbol the model has and one it has not: the known one
\* was changed, the run went on and returned.
C16_Witness ==
    /\ AppliedOverrides /\ ~call.raised
    /\ \E k, u \in DOMAIN call.vv :
          /\ Unknown(u)
          /\ ~Unknown(k) /\ call.start[k] = call.vv[k]
          /\ call.base[k] # call.vv[k]

\* C17 as stated -- in a TimeCourse without reset a symbol that an earlier
\* call overrode and this call does not name starts from the overridden
\* value; with reset every symbol this call does not name starts from the
\* model's initial value.
TimeCourseRan == AppliedOverrides /\ call.op = "simulate_time_course"
Unnamed(k) == ~Specified(k, call.vv, call.scan)
StartsFromInitial ==
    \A k \in ModelKeys(EngineModel) :
        Unnamed(k) => call.start[k] = InitialValues(EngineModel)[k]
C18_SteadyStateFromInitial ==
    (AppliedOverrides /\ call.op = "compute_steady_state") =>
        \A k \in ModelKeys(EngineModel) :
            Unnamed(k) => call.start[k] = InitialValues(EngineModel)[k]

\* A SteadyState on an engine that earlier calls had moved away from the
\* initial values, solved from the initial value all the same.
C18_Witness ==
    /\ AppliedOverrides /\ call.op = "compute_steady_state"
    /\ \E k \in ModelKeys(EngineModel) :
          /\ Unnamed(k)
          /\ call.before[k] # InitialValues(EngineModel)[k]
          /\ call.start[k] = InitialValues(EngineModel)[k]

\* C19 -- get_model_info returns the metadata of the code of the last
\* load_code that returned normally, with the values the engine had right
\* after that load, and the call changes neither the Simulator nor its
\* engine.
InfoReturned == call.op = "get_model_info" /\ ~call.raised
InfoStep ==
    call'.op = "get_model_info" =>
        simulator' = simulator /\ rrValues' = rrValues
====
